---- MODULE Spec2Model ----
(***************************************************************************)
(* Model of src/cpp/eytzinger.hpp: the Eytzinger class (constructor,       *)
(* recursive layout, four lower_bound variants, get_value, size) and the   *)
(* two reference searches naive_binary_search and std_lower_bound, driven  *)
(* as in src/cpp/benchmark.cpp: the structure is built once and then       *)
(* queried.  Every statement of a loop is one step of the calling thread.  *)
(***************************************************************************)
EXTENDS Integers, Sequences, FiniteSets, TLC

\* ---------------------------------------------------------------- bounds
MaxN == 5            \* longest sorted input that is built
NegSpan == 2         \* elements range over -NegSpan .. MaxVal
MaxVal == 2
MaxConcN == 2        \* longest input of the concurrent specification

\* ------------------------------------------------------ program constants
Sentinel == -1       \* t[0] = -1
NotFound == -1       \* get_value's out-of-range result

Vals == (0 - NegSpan)..MaxVal
Keys == (0 - NegSpan - 1)..(MaxVal + 1)
Indexes == -1..(MaxN + 2)
\* the concurrent specification draws from a key below every element, the
\* sentinel's neighbours and a key above every element
ConcKeys == {0 - NegSpan - 1, -1, 0, MaxVal + 1}
ConcIndexes == {-1, 0, MaxConcN, MaxConcN + 1}
Threads == {"main", "worker"}
WhileOps == {"original", "prefetch"}
ForOps == {"fixed_iter", "fixed_iter_prefetch"}
EytzOps == WhileOps \cup ForOps

VARIABLES arr, t, n, iters, bpc, stack, cursor, oob,
          tpc, op, x, k, it, lo, hi, ret, reads

svars == <<arr, t, n, iters>>
bvars == <<bpc, stack, cursor>>
qvars == <<tpc, op, x, k, it, lo, hi, ret, reads>>
vars == <<arr, t, n, iters, bpc, stack, cursor, oob,
          tpc, op, x, k, it, lo, hi, ret, reads>>

\* ------------------------------------------------------------- helpers
\* ascending (non-strict) int sequences of one length
AscSeqs(len) == {s \in [1..len -> Vals] : \A a \in 1..(len - 1) : s[a] <= s[a + 1]}

\* a conditional used as an arithmetic 0/1 term
B2I(b) == IF b THEN 1 ELSE 0

\* __builtin_clz for a positive 32-bit int: leading zero bits
RECURSIVE BitLen(_)
BitLen(v) == IF v = 0 THEN 0 ELSE 1 + BitLen(v \div 2)

clz(v) == 32 - BitLen(v)

lgOffByOne(m) == IF m = 0 THEN -1 ELSE 32 - clz(m)

lg(m) == IF m = 0 THEN -1 ELSE 31 - clz(m)

\* ~v on a two's-complement int
BitNot(v) == 0 - v - 1

\* __builtin_ffs: one plus the index of the lowest set bit, 0 for 0.
\* v % 2 and v \div 2 are the low bit and the arithmetic shift of a
\* two's-complement value, negative ones included.
RECURSIVE ffs(_)
ffs(v) == IF v = 0 THEN 0 ELSE IF v % 2 = 1 THEN 1 ELSE 1 + ffs(v \div 2)

RECURSIVE Pow2(_)
Pow2(e) == IF e = 0 THEN 1 ELSE 2 * Pow2(e - 1)

\* v >> s
Shr(v, s) == v \div Pow2(s)

RestoreNoExtraBit(kk) == IF ffs(BitNot(kk)) = 0 THEN kk ELSE Shr(kk, ffs(BitNot(kk)) - 1)

\* k >>= __builtin_ffs(~k)
Restore(kk) == Shr(kk, ffs(BitNot(kk)))

LessOrEqual(v, key) == v <= key

\* arr[mid] < x
Less(v, key) == v < key

\* k = 2 * k + (t[k] < x), tk being the value read
Descend(tk, kk, key) == 2 * kk + B2I(tk < key)

FinalLocUnguarded(kk, nn) == kk

\* the index behind  int *loc = (k <= n ? t.data() + k : t.data())
FinalLoc(kk, nn) == IF kk <= nn THEN kk ELSE 0

\* the values a read of t[idx] can produce: the element inside the
\* vector, any int outside it (undefined behaviour)
ReadT(idx) == IF idx \in 0..n THEN {t[idx]} ELSE Vals

\* the values a read of sorted_array[idx] (0-based) can produce
ReadArr(idx) == IF idx \in 0..(n - 1) THEN {arr[idx + 1]} ELSE Vals

SharedSlot(th) == "main"

\* the storage of the local variable k of the call made by thread th:
\* automatic, one per call
Slot(th) == th

LeftChildAsRight(kk) == 2 * kk + 1

\* the implicit tree: the subtrees of k are rooted at 2 * k and 2 * k + 1
LeftChild(kk) == 2 * kk

RightChild(kk) == 2 * kk + 1

\* ----------------------------------------------------------------- Init
\* the state on entry to the constructor body: n(sorted_array.size()) done,
\* t empty, no thread inside a query.  iters is not set yet and is not read
\* before SetIters assigns it.
InitFor(maxLen) ==
    /\ \E len \in 0..maxLen : arr \in AscSeqs(len) /\ n = len
    /\ t = <<>>
    /\ iters = 0
    /\ bpc = "resize"
    /\ stack = <<>>
    /\ cursor = 0
    /\ oob = FALSE
    /\ tpc = [th \in Threads |-> "idle"]
    /\ op = [th \in Threads |-> "size"]
    /\ x = [th \in Threads |-> 0]
    /\ k = [th \in Threads |-> 0]
    /\ it = [th \in Threads |-> 0]
    /\ lo = [th \in Threads |-> 0]
    /\ hi = [th \in Threads |-> 0]
    /\ ret = [th \in Threads |-> 0]
    /\ reads = [th \in Threads |-> {}]

Init == InitFor(MaxN)

ConcInit == InitFor(MaxConcN)

\* ---------------------------------------------------------- constructor
\* t.resize(n + 1); t[0] = -1; and the call eytzinger(sorted_array, 0, 1)
Resize ==
    /\ bpc = "resize"
    /\ t' = [j \in 0..n |-> IF j = 0 THEN Sentinel ELSE 0]
    /\ stack' = <<[k |-> 1, pc |-> "enter"]>>
    /\ cursor' = 0
    /\ bpc' = "build"
    /\ UNCHANGED <<arr, n, iters, oob>>
    /\ UNCHANGED qvars

Top == stack[Len(stack)]

Pop == SubSeq(stack, 1, Len(stack) - 1)

\* eytzinger(arr, i, k): the test k <= n, then the call for 2 * k, or the
\* return of i unchanged
BuildEnter ==
    /\ bpc = "build" /\ stack # <<>> /\ Top.pc = "enter"
    /\ IF Top.k <= n
       THEN stack' = Append([stack EXCEPT ![Len(stack)].pc = "assign"],
                            [k |-> LeftChild(Top.k), pc |-> "enter"])
       ELSE stack' = Pop
    /\ UNCHANGED <<arr, t, n, iters, bpc, cursor, oob>>
    /\ UNCHANGED qvars

\* t[k] = arr[i++]; then the call for 2 * k + 1
BuildAssign ==
    /\ bpc = "build" /\ stack # <<>> /\ Top.pc = "assign"
    /\ \E v \in ReadArr(cursor) : t' = [t EXCEPT ![Top.k] = v]
    /\ oob' = (oob \/ cursor \notin 0..(n - 1))
    /\ cursor' = cursor + 1
    /\ stack' = Append([stack EXCEPT ![Len(stack)].pc = "return"],
                       [k |-> RightChild(Top.k), pc |-> "enter"])
    /\ UNCHANGED <<arr, n, iters, bpc>>
    /\ UNCHANGED qvars

\* return i
BuildReturn ==
    /\ bpc = "build" /\ stack # <<>> /\ Top.pc = "return"
    /\ stack' = Pop
    /\ UNCHANGED <<arr, t, n, iters, bpc, cursor, oob>>
    /\ UNCHANGED qvars

\* iters = lg(n + 1), after the outermost eytzinger call returned
SetIters ==
    /\ bpc = "build" /\ stack = <<>>
    /\ iters' = lg(n + 1)
    /\ bpc' = "done"
    /\ UNCHANGED <<arr, t, n, stack, cursor, oob>>
    /\ UNCHANGED qvars

\* -------------------------------------------------------------- queries
CanCall(th) == bpc = "done" /\ tpc[th] \in {"idle", "done"}

\* entry of one of the four lower_bound variants: k = 1.  ret holds the
\* value a finished call returned and nothing while a call runs.
CallEytz(th, KS) ==
    /\ CanCall(th)
    /\ \E o \in EytzOps, key \in KS :
          /\ op' = [op EXCEPT ![th] = o]
          /\ x' = [x EXCEPT ![th] = key]
    /\ k' = [k EXCEPT ![Slot(th)] = 1]
    /\ it' = [it EXCEPT ![th] = 0]
    /\ reads' = [reads EXCEPT ![th] = {}]
    /\ tpc' = [tpc EXCEPT ![th] = "loop"]
    /\ ret' = [ret EXCEPT ![th] = 0]
    /\ UNCHANGED <<lo, hi, oob>>
    /\ UNCHANGED svars /\ UNCHANGED bvars

\* one iteration of  while (k <= n) k = 2 * k + (t[k] < x);
\* the prefetch of lower_bound_prefetch is a hint without effect on state;
\* it counts the iterations
WhileStep(th) ==
    /\ bpc = "done" /\ tpc[th] = "loop" /\ op[th] \in WhileOps
    /\ k[Slot(th)] <= n
    /\ \E v \in ReadT(k[Slot(th)]) :
          k' = [k EXCEPT ![Slot(th)] = Descend(v, k[Slot(th)], x[th])]
    /\ oob' = (oob \/ k[Slot(th)] \notin 0..n)
    /\ reads' = [reads EXCEPT ![th] = @ \cup {k[Slot(th)]}]
    /\ it' = [it EXCEPT ![th] = @ + 1]
    /\ UNCHANGED <<tpc, op, x, lo, hi, ret>>
    /\ UNCHANGED svars /\ UNCHANGED bvars

\* the loop test k <= n fails
WhileExit(th) ==
    /\ bpc = "done" /\ tpc[th] = "loop" /\ op[th] \in WhileOps
    /\ ~(k[Slot(th)] <= n)
    /\ tpc' = [tpc EXCEPT ![th] = "restore"]
    /\ UNCHANGED <<op, x, k, it, lo, hi, ret, reads, oob>>
    /\ UNCHANGED svars /\ UNCHANGED bvars

\* one iteration of  for (i = 0; i < iters; i++) k = 2 * k + (t[k] < x);
\* t[k] is read without a test of k
ForStep(th) ==
    /\ bpc = "done" /\ tpc[th] = "loop" /\ op[th] \in ForOps
    /\ it[th] < iters
    /\ \E v \in ReadT(k[Slot(th)]) :
          k' = [k EXCEPT ![Slot(th)] = Descend(v, k[Slot(th)], x[th])]
    /\ oob' = (oob \/ k[Slot(th)] \notin 0..n)
    /\ reads' = [reads EXCEPT ![th] = @ \cup {k[Slot(th)]}]
    /\ it' = [it EXCEPT ![th] = @ + 1]
    /\ UNCHANGED <<tpc, op, x, lo, hi, ret>>
    /\ UNCHANGED svars /\ UNCHANGED bvars

\* the test i < iters fails
ForExit(th) ==
    /\ bpc = "done" /\ tpc[th] = "loop" /\ op[th] \in ForOps
    /\ ~(it[th] < iters)
    /\ tpc' = [tpc EXCEPT ![th] = "final"]
    /\ UNCHANGED <<op, x, k, it, lo, hi, ret, reads, oob>>
    /\ UNCHANGED svars /\ UNCHANGED bvars

\* loc = (k <= n ? t.data() + k : t.data()); k = 2 * k + (*loc < x)
FinalStep(th) ==
    /\ bpc = "done" /\ tpc[th] = "final"
    /\ LET loc == FinalLoc(k[Slot(th)], n) IN
          /\ \E v \in ReadT(loc) :
                k' = [k EXCEPT ![Slot(th)] = Descend(v, k[Slot(th)], x[th])]
          /\ oob' = (oob \/ loc \notin 0..n)
          /\ reads' = [reads EXCEPT ![th] = @ \cup {loc}]
    /\ tpc' = [tpc EXCEPT ![th] = "restore"]
    /\ UNCHANGED <<op, x, it, lo, hi, ret>>
    /\ UNCHANGED svars /\ UNCHANGED bvars

\* k >>= __builtin_ffs(~k); return k.  The locals end with the call.
RestoreStep(th) ==
    /\ bpc = "done" /\ tpc[th] = "restore"
    /\ ret' = [ret EXCEPT ![th] = Restore(k[Slot(th)])]
    /\ k' = [k EXCEPT ![Slot(th)] = 0]
    /\ it' = [it EXCEPT ![th] = 0]
    /\ tpc' = [tpc EXCEPT ![th] = "done"]
    /\ UNCHANGED <<op, x, lo, hi, reads, oob>>
    /\ UNCHANGED svars /\ UNCHANGED bvars

\* naive_binary_search up to the loop: the early return 0, or low = 0 and
\* high = arr.size()
CallNaive(th, KS) ==
    /\ CanCall(th)
    /\ \E key \in KS :
          /\ x' = [x EXCEPT ![th] = key]
          /\ IF n = 0 \/ arr[1] >= key
             THEN /\ ret' = [ret EXCEPT ![th] = 0]
                  /\ tpc' = [tpc EXCEPT ![th] = "done"]
                  /\ UNCHANGED <<lo, hi>>
             ELSE /\ lo' = [lo EXCEPT ![th] = 0]
                  /\ hi' = [hi EXCEPT ![th] = n]
                  /\ tpc' = [tpc EXCEPT ![th] = "nloop"]
                  /\ ret' = [ret EXCEPT ![th] = 0]
    /\ op' = [op EXCEPT ![th] = "naive"]
    /\ it' = [it EXCEPT ![th] = 0]
    /\ reads' = [reads EXCEPT ![th] = {}]
    /\ UNCHANGED <<k, oob>>
    /\ UNCHANGED svars /\ UNCHANGED bvars

\* int mid = (high + low) / 2
Mid(l, h) == (h + l) \div 2

\* one iteration of  while (high - low > 1)
NaiveStep(th) ==
    /\ bpc = "done" /\ tpc[th] = "nloop"
    /\ hi[th] - lo[th] > 1
    /\ LET mid == Mid(lo[th], hi[th]) IN
          /\ \E v \in ReadArr(mid) :
                IF Less(v, x[th])
                THEN lo' = [lo EXCEPT ![th] = mid] /\ UNCHANGED hi
                ELSE hi' = [hi EXCEPT ![th] = mid] /\ UNCHANGED lo
          /\ oob' = (oob \/ mid \notin 0..(n - 1))
    /\ it' = [it EXCEPT ![th] = @ + 1]
    /\ UNCHANGED <<tpc, op, x, k, ret, reads>>
    /\ UNCHANGED svars /\ UNCHANGED bvars

\* the loop test fails: return high
NaiveReturn(th) ==
    /\ bpc = "done" /\ tpc[th] = "nloop"
    /\ ~(hi[th] - lo[th] > 1)
    /\ ret' = [ret EXCEPT ![th] = hi[th]]
    /\ lo' = [lo EXCEPT ![th] = 0]
    /\ hi' = [hi EXCEPT ![th] = 0]
    /\ it' = [it EXCEPT ![th] = 0]
    /\ tpc' = [tpc EXCEPT ![th] = "done"]
    /\ UNCHANGED <<op, x, k, reads, oob>>
    /\ UNCHANGED svars /\ UNCHANGED bvars

\* std::lower_bound(first, first + len, key) - arr.begin(): the bisection
\* of the iterator range, first 0-based
RECURSIVE LowerBoundStd(_, _, _)
LowerBoundStd(first, len, key) ==
    IF len <= 0 THEN first
    ELSE LET half == len \div 2
             middle == first + half
         IN  IF arr[middle + 1] < key
             THEN LowerBoundStd(middle + 1, len - half - 1, key)
             ELSE LowerBoundStd(first, half, key)

std_lower_bound(key) == LowerBoundStd(0, n, key)

CallStd(th, KS) ==
    /\ CanCall(th)
    /\ \E key \in KS :
          /\ x' = [x EXCEPT ![th] = key]
          /\ ret' = [ret EXCEPT ![th] = std_lower_bound(key)]
    /\ op' = [op EXCEPT ![th] = "std"]
    /\ tpc' = [tpc EXCEPT ![th] = "done"]
    /\ it' = [it EXCEPT ![th] = 0]
    /\ reads' = [reads EXCEPT ![th] = {}]
    /\ UNCHANGED <<k, lo, hi, oob>>
    /\ UNCHANGED svars /\ UNCHANGED bvars

InStoreOffByOne(index, size) == index >= 0 /\ index <= size

\* index < t.size(): the int index is converted to size_t, so a negative
\* index compares as a value above every vector size
InStore(index, size) == index >= 0 /\ index < size

\* get_value(index): (index < t.size()) ? t[index] : -1
CallGetValue(th, IS) ==
    /\ CanCall(th)
    /\ \E index \in IS :
          /\ x' = [x EXCEPT ![th] = index]
          /\ IF InStore(index, n + 1)
             THEN /\ \E v \in ReadT(index) : ret' = [ret EXCEPT ![th] = v]
                  /\ reads' = [reads EXCEPT ![th] = {index}]
                  /\ oob' = (oob \/ index \notin 0..n)
             ELSE /\ ret' = [ret EXCEPT ![th] = NotFound]
                  /\ reads' = [reads EXCEPT ![th] = {}]
                  /\ UNCHANGED oob
    /\ op' = [op EXCEPT ![th] = "get_value"]
    /\ tpc' = [tpc EXCEPT ![th] = "done"]
    /\ it' = [it EXCEPT ![th] = 0]
    /\ UNCHANGED <<k, lo, hi>>
    /\ UNCHANGED svars /\ UNCHANGED bvars

\* size(): return n
CallSize(th) ==
    /\ CanCall(th)
    /\ op' = [op EXCEPT ![th] = "size"]
    /\ x' = [x EXCEPT ![th] = 0]
    /\ ret' = [ret EXCEPT ![th] = n]
    /\ tpc' = [tpc EXCEPT ![th] = "done"]
    /\ it' = [it EXCEPT ![th] = 0]
    /\ reads' = [reads EXCEPT ![th] = {}]
    /\ UNCHANGED <<k, lo, hi, oob>>
    /\ UNCHANGED svars /\ UNCHANGED bvars

\* ------------------------------------------------------- specifications
Build == Resize \/ BuildEnter \/ BuildAssign \/ BuildReturn \/ SetIters

Query(th, KS, IS) ==
    \/ CallEytz(th, KS) \/ WhileStep(th) \/ WhileExit(th)
    \/ ForStep(th) \/ ForExit(th) \/ FinalStep(th) \/ RestoreStep(th)
    \/ CallNaive(th, KS) \/ NaiveStep(th) \/ NaiveReturn(th)
    \/ CallStd(th, KS) \/ CallGetValue(th, IS) \/ CallSize(th)

\* one caller, as in main(): build, then query after query
Next == Build \/ Query("main", Keys, Indexes)

Spec == Init /\ [][Next]_vars

\* the operations of the structure itself
ConcQuery(th, KS, IS) ==
    \/ CallEytz(th, KS) \/ WhileStep(th) \/ WhileExit(th)
    \/ ForStep(th) \/ ForExit(th) \/ FinalStep(th) \/ RestoreStep(th)
    \/ CallGetValue(th, IS) \/ CallSize(th)

\* build, publish, then queries of several threads interleaved step by step
ConcNext == Build \/ \E th \in Threads : ConcQuery(th, ConcKeys, ConcIndexes)

ConcSpec == ConcInit /\ [][ConcNext]_vars

\* the caller's steps are taken as long as it has one to take
FairSpec == Spec /\ WF_vars(Query("main", Keys, Indexes))

\* ------------------------------------------- the queries, run to the end
\* while (k <= n) k = 2 * k + (t[k] < x), from k = kk
RECURSIVE WhileLoop(_, _)
WhileLoop(kk, key) ==
    IF kk <= n THEN WhileLoop(Descend(t[kk], kk, key), key) ELSE kk

lower_bound_original(key) == Restore(WhileLoop(1, key))

lower_bound_prefetch(key) == Restore(WhileLoop(1, key))

\* for (i = 0; i < iters; i++) k = 2 * k + (t[k] < x), from k = kk, i = ii
RECURSIVE ForLoop(_, _, _)
ForLoop(kk, ii, key) ==
    IF ii < iters THEN ForLoop(Descend(t[kk], kk, key), ii + 1, key) ELSE kk

lower_bound_fixed_iter(key) ==
    LET kf == ForLoop(1, 0, key)
    IN  Restore(Descend(t[FinalLoc(kf, n)], kf, key))

lower_bound_fixed_iter_prefetch(key) ==
    LET kf == ForLoop(1, 0, key)
    IN  Restore(Descend(t[FinalLoc(kf, n)], kf, key))

get_value(index) == IF InStore(index, n + 1) THEN t[index] ELSE NotFound

size == n

\* the value operation o returns for argument a when no other call runs
Alone(o, a) ==
    CASE o = "original" -> lower_bound_original(a)
      [] o = "prefetch" -> lower_bound_prefetch(a)
      [] o = "fixed_iter" -> lower_bound_fixed_iter(a)
      [] o = "fixed_iter_prefetch" -> lower_bound_fixed_iter_prefetch(a)
      [] o = "get_value" -> get_value(a)
      [] o = "size" -> size
      [] o = "std" -> std_lower_bound(a)

\* ----------------------------------------------------------- properties
\* the 0-based rank of key: the number of elements strictly less than key
Rank(key) == Cardinality({a \in 1..n : arr[a] < key})

\* the in-order walk of the implicit tree rooted at kk: the indices visited
RECURSIVE InOrderWalk(_)
InOrderWalk(kk) ==
    IF kk > n THEN <<>>
    ELSE InOrderWalk(2 * kk) \o <<kk>> \o InOrderWalk(2 * kk + 1)

\* the 1-based position of store index j in the in-order walk
InOrderPos(j) == CHOOSE p \in 1..n : InOrderWalk(1)[p] = j

Built == bpc = "done"

Done(th) == Built /\ tpc[th] = "done"

RankOps == EytzOps \cup {"naive", "std"}

\* C1: every one of the four Eytzinger variants, naive_binary_search and
\* std_lower_bound returns the 0-based rank of the first element not less
\* than x (the count of elements strictly less than x), a value in 0..N.
C1_Agreement ==
    (Done("main") /\ op["main"] \in RankOps)
        => (ret["main"] = Rank(x["main"]) /\ ret["main"] \in 0..n)

\* C2: after the constructor the in-order walk of the implicit tree visits
\* every index of 1..N exactly once and reads t in the order of the input;
\* the cursor only increases, ends at N and never indexes the input at or
\* beyond N.
C2_WalkIsInput ==
    Built => LET w == InOrderWalk(1) IN
                /\ Len(w) = n
                /\ {w[p] : p \in 1..n} = 1..n
                /\ \A p \in 1..n : t[w[p]] = arr[p]
                /\ cursor = n

C2_CursorInInput ==
    /\ cursor \in 0..n
    /\ (bpc = "build" /\ stack # <<>> /\ Top.pc = "assign") => cursor < n

C2_InOrder ==
    /\ [](C2_WalkIsInput /\ C2_CursorInInput)
    /\ [][cursor' >= cursor]_vars

C2_Witness ==
    Built /\ n = MaxN /\ arr[1] < arr[2] /\ arr[n - 1] < arr[n] /\ t[1] # arr[1]

\* C3: the fixed-iteration variants return what lower_bound_original
\* returns, for every key; whenever the fixed loop leaves k > N the
\* sentinel t[0] read by the final step is strictly less than x.
C3_SentinelGuard ==
    /\ (Done("main") /\ op["main"] \in ForOps)
          => ret["main"] = lower_bound_original(x["main"])
    /\ (Built /\ tpc["main"] = "final" /\ k["main"] > n)
          => (FinalLoc(k["main"], n) = 0 /\ t[0] < x["main"])

\* C4: each of the iters unconditional steps of the fixed-iteration
\* variants reads t[k] with 1 <= k <= N, after them k <= 2N + 1, and no
\* read leaves t[0..N] before or in the guarded final step.
C4_FixedIterSafety ==
    (Built /\ op["main"] \in ForOps) =>
        /\ (tpc["main"] = "loop" /\ it["main"] < iters)
              => k["main"] \in 1..n
        /\ tpc["main"] = "loop" => reads["main"] \subseteq 1..n
        /\ tpc["main"] = "final"
              => (it["main"] = iters /\ k["main"] <= 2 * n + 1)
        /\ tpc["main"] \in {"loop", "final", "restore", "done"}
              => (reads["main"] \subseteq 0..n /\ ~oob)

C4_Witness ==
    /\ Built /\ op["main"] \in ForOps /\ tpc["main"] = "final"
    /\ n = 3 /\ it["main"] = 2 /\ k["main"] = 2 * n + 1

\* C5: on the structure built from the empty sequence every variant and
\* both reference searches return 0 for every key, and no query reads t
\* at an index >= 1.
C5_EmptyStructure ==
    (Done("main") /\ n = 0 /\ op["main"] \in RankOps)
        => (ret["main"] = 0 /\ reads["main"] \subseteq {0})

\* C6: naive_binary_search terminates and returns the count of elements
\* strictly less than x, the value of std_lower_bound; in its loop
\* 0 <= low < high <= size, arr[low] < x, and high = size or arr[high] >= x.
C6_NaiveResult ==
    /\ (Done("main") /\ op["main"] = "naive")
          => /\ ret["main"] = Rank(x["main"])
             /\ ret["main"] = std_lower_bound(x["main"])
    /\ (Done("main") /\ op["main"] = "std") => ret["main"] = Rank(x["main"])
    /\ (Built /\ tpc["main"] = "nloop")
          => /\ 0 <= lo["main"] /\ lo["main"] < hi["main"] /\ hi["main"] <= n
             /\ arr[lo["main"] + 1] < x["main"]
             /\ (hi["main"] = n \/ arr[hi["main"] + 1] >= x["main"])
             /\ ~oob

C6_Naive ==
    /\ []C6_NaiveResult
    /\ (tpc["main"] = "nloop") ~> (tpc["main"] = "done")

C6_Witness ==
    /\ Done("main") /\ op["main"] = "naive" /\ n = MaxN
    /\ arr[2] = arr[3] /\ x["main"] = arr[2] /\ ret["main"] = 1

\* C7: no query writes t, n or iters, and under every interleaving each
\* query returns the value it returns when run alone.
C7_DoneAlone ==
    \A th \in Threads :
        Done(th) => (ret[th] = Alone(op[th], x[th]) /\ ~oob)

C7_ReadOnly ==
    /\ []C7_DoneAlone
    /\ [][Built => (t' = t /\ n' = n /\ iters' = iters)]_vars

C7_Witness ==
    /\ Done("main") /\ op["main"] = "fixed_iter" /\ ret["main"] > 0
    /\ tpc["worker"] = "loop" /\ op["worker"] = "original" /\ k["worker"] > 1
    /\ x["worker"] # x["main"]

\* C8: get_value(index) returns t[index] for index in 0..N and -1 for every
\* index >= N + 1, without reading t outside 0..N.
C8_GetValue ==
    (Done("main") /\ op["main"] = "get_value") =>
        /\ x["main"] \in 0..n
              => (ret["main"] = t[x["main"]] /\ reads["main"] = {x["main"]})
        /\ x["main"] >= n + 1
              => (ret["main"] = NotFound /\ reads["main"] = {})
        /\ reads["main"] \subseteq 0..n
        /\ ~oob

C8_Witness ==
    /\ Done("main") /\ op["main"] = "get_value" /\ n >= 1
    /\ x["main"] = n + 1 /\ ret["main"] = NotFound

\* C9: lower_bound_original leaves its loop with k in N+1..2N+1 and returns
\* j with either j in 1..N, t[j] >= x and t[j] the first element not less
\* than x in the in-order order of the store, or j = 0, which happens
\* exactly when every stored element is less than x.
C9_OriginalIndex ==
    /\ (Built /\ tpc["main"] = "restore" /\ op["main"] = "original")
          => k["main"] \in (n + 1)..(2 * n + 1)
    /\ (Done("main") /\ op["main"] = "original") =>
          LET j == ret["main"] IN
             /\ \/ /\ j \in 1..n
                   /\ t[j] >= x["main"]
                   /\ InOrderPos(j) = Rank(x["main"]) + 1
                \/ j = 0
             /\ (j = 0) <=> (\A a \in 1..n : arr[a] < x["main"])

C9_Witness ==
    /\ Done("main") /\ op["main"] = "original" /\ n = MaxN
    /\ ret["main"] \in 1..n /\ ret["main"] # Rank(x["main"])
    /\ arr[1] < x["main"]

\* C10: the while loop of lower_bound_original and lower_bound_prefetch
\* terminates, k strictly increases at every step, every read is t[k] with
\* 1 <= k <= N, and the loop runs exactly iters or iters + 1 times, so the
\* first iters iterations stay within the bounds.
C10_TripCount ==
    (Built /\ op["main"] \in WhileOps) =>
        /\ tpc["main"] = "loop"
              => /\ it["main"] <= iters + 1
                 /\ it["main"] < iters => k["main"] \in 1..n
                 /\ k["main"] >= 1
        /\ tpc["main"] = "restore" => it["main"] \in {iters, iters + 1}
        /\ tpc["main"] \in {"loop", "restore", "done"}
              => (reads["main"] \subseteq 1..n /\ ~oob)

C10_WhileLoop ==
    /\ []C10_TripCount
    /\ [][(tpc["main"] = "loop" /\ tpc'["main"] = "loop") => k'["main"] > k["main"]]_vars
    /\ (tpc["main"] = "loop" /\ op["main"] \in WhileOps) ~> (tpc["main"] = "done")

C10_Witness ==
    /\ Built /\ op["main"] = "prefetch" /\ tpc["main"] = "restore"
    /\ n = MaxN /\ it["main"] = iters + 1

====
